---- MODULE Spec2Model ----
(***************************************************************************)
(* Product service: service layer (internal/service/product_service.go),   *)
(* repository (internal/repository/product_repository.go) and the entity   *)
(* module (internal/models), over a key-value store.                       *)
(*                                                                         *)
(* Every service call runs in a client process.  A call is cut into        *)
(* steps at its accesses to what the processes share: the store (one step  *)
(* per store call) and the clock (time.Now).  The code between two such    *)
(* accesses is local and is part of the step that follows it.              *)
(*                                                                         *)
(* Modelling decisions:                                                    *)
(*  - the store is a map from key to attribute map; a store call takes     *)
(*    effect atomically, or fails without effect;                          *)
(*  - time.Now() returns a later instant at every call;                    *)
(*  - uuid.New() returns a value it never returned before;                 *)
(*  - a pointer is a sequence: <<>> is nil, <<v>> points to v.             *)
(***************************************************************************)
EXTENDS Integers, Sequences, FiniteSets, TLC

VARIABLES
    store,    \* the table: key -> attribute map
    clock,    \* the instant the last time.Now() returned
    nextId,   \* how many ids uuid.New() has handed out
    pc,       \* pc[p]: where process p is in its current call
    loc,      \* loc[p]: the locals of p's current call
    calls,    \* calls[p]: the store calls p's current call has issued, in order
    result,   \* result[p]: what p's call returned (meaningful at pc[p] = "done")
    input     \* the request a specification fixes for all its calls (nil if none)

vars == <<store, clock, nextId, pc, loc, calls, result, input>>

(***************************************************************************)
(* Bounds                                                                  *)
(***************************************************************************)
MaxClock == 3
MaxUUID == 2
\* The number of items whose data fills one Scan response: the store ends a
\* Scan response at 1 MB of scanned data, before the filter is applied.
ScanPageItems == 1

Procs == {"p1", "p2"}

Nil == <<>>
Ptr(v) == <<v>>
Deref(ptr) == ptr[1]

(***************************************************************************)
(* Input values.  Each field has at least one value the validation         *)
(* rejects and the values it accepts.                                      *)
(***************************************************************************)
Names == {"", "n1", "n2"}
Descriptions == {"", "d1"}
Prices == {-1, 0, 1, 2}
Categories == {"", "c1", "c2"}
SKUs == {"", "s1", "s2"}
Stocks == {-1, 0, 1}

UUID(n) == ToString(n)
UUIDs == {UUID(n) : n \in 1..MaxUUID}
IdInputs == {""} \cup UUIDs

AllCreateRequests ==
    [Name : Names, Description : Descriptions, Price : Prices,
     Category : Categories, SKU : SKUs, Stock : Stocks]

Opt(S) == {Nil} \cup {Ptr(v) : v \in S}

AllUpdateRequests ==
    [Name : Opt(Names), Description : Opt(Descriptions), Price : Opt(Prices),
     Category : Opt(Categories), SKU : Opt(SKUs), Stock : Opt(Stocks),
     IsActive : Opt(BOOLEAN)]

EmptyUpdate ==
    [Name |-> Nil, Description |-> Nil, Price |-> Nil, Category |-> Nil,
     SKU |-> Nil, Stock |-> Nil, IsActive |-> Nil]

Present(req) ==
    {f \in {"Name", "Description", "Price", "Category", "SKU", "Stock", "IsActive"} :
        req[f] # Nil}

\* The requests of the one client: two valid create requests and invalid
\* variants of the first; the update requests that set at most one field,
\* and two that set several.
BaseCreate ==
    [Name |-> "n1", Description |-> "", Price |-> 1, Category |-> "c1",
     SKU |-> "s1", Stock |-> 0]
OtherCreate ==
    [Name |-> "n2", Description |-> "d1", Price |-> 2, Category |-> "c2",
     SKU |-> "s2", Stock |-> 1]

CreateRequests ==
    {BaseCreate, OtherCreate,
     [BaseCreate EXCEPT !.Name = ""], [BaseCreate EXCEPT !.Price = 0],
     [BaseCreate EXCEPT !.Price = -1], [BaseCreate EXCEPT !.Category = ""],
     [BaseCreate EXCEPT !.SKU = ""], [BaseCreate EXCEPT !.Stock = -1],
     [BaseCreate EXCEPT !.Name = "", !.Stock = -1]}

UpdateRequests ==
    {EmptyUpdate} \cup
    {[EmptyUpdate EXCEPT !.Name = Ptr(v)] : v \in Names} \cup
    {[EmptyUpdate EXCEPT !.Description = Ptr(v)] : v \in Descriptions} \cup
    {[EmptyUpdate EXCEPT !.Price = Ptr(v)] : v \in Prices} \cup
    {[EmptyUpdate EXCEPT !.Category = Ptr(v)] : v \in Categories} \cup
    {[EmptyUpdate EXCEPT !.SKU = Ptr(v)] : v \in SKUs} \cup
    {[EmptyUpdate EXCEPT !.Stock = Ptr(v)] : v \in Stocks} \cup
    {[EmptyUpdate EXCEPT !.IsActive = Ptr(v)] : v \in BOOLEAN} \cup
    {[EmptyUpdate EXCEPT !.Name = Ptr("n2"), !.Price = Ptr(2), !.Stock = Ptr(1),
                         !.IsActive = Ptr(FALSE)],
     [EmptyUpdate EXCEPT !.Category = Ptr("c2"), !.Price = Ptr(0)]}

\* The requests of the clients that run concurrently.
ConcCreateRequests == {BaseCreate, [BaseCreate EXCEPT !.Name = ""]}

ConcUpdateRequests ==
    {[EmptyUpdate EXCEPT !.Price = Ptr(2)],
     [EmptyUpdate EXCEPT !.IsActive = Ptr(FALSE)],
     [EmptyUpdate EXCEPT !.Stock = Ptr(-1)]}

\* The requests of the concurrent clients that switch isActive.
ActiveUpdateRequests ==
    {[EmptyUpdate EXCEPT !.IsActive = Ptr(FALSE)],
     [EmptyUpdate EXCEPT !.IsActive = Ptr(TRUE)],
     [EmptyUpdate EXCEPT !.Price = Ptr(2)]}

(***************************************************************************)
(* Errors.  err is the sentinel an error wraps (errors.Is), "other" for an *)
(* error that wraps neither sentinel, "nil" for success.                   *)
(***************************************************************************)
ErrProductNotFound == "ErrProductNotFound"
ErrInvalidProduct == "ErrInvalidProduct"
ErrOther == "other"
NoErr == "nil"

(***************************************************************************)
(* Entity module                                                           *)
(***************************************************************************)
\* Mutant of NewProduct: the id is generated once and used for every record.
NewProduct_SameId(req, now, id) ==
    [ID |-> UUID(1), Name |-> req.Name, Description |-> req.Description,
     Price |-> req.Price, Category |-> req.Category, SKU |-> req.SKU,
     Stock |-> req.Stock, IsActive |-> TRUE, CreatedAt |-> now, UpdatedAt |-> now]

NewProduct(req, now, id) ==
    [ID |-> id, Name |-> req.Name, Description |-> req.Description,
     Price |-> req.Price, Category |-> req.Category, SKU |-> req.SKU,
     Stock |-> req.Stock, IsActive |-> TRUE, CreatedAt |-> now, UpdatedAt |-> now]

\* Mutants of Update: absent fields cleared to the zero value; UpdatedAt left
\* alone; CreatedAt refreshed as well.
Update_ClearsAbsent(p, req, now) ==
    [ID |-> p.ID,
     Name |-> IF req.Name # Nil THEN Deref(req.Name) ELSE "",
     Description |-> IF req.Description # Nil THEN Deref(req.Description) ELSE "",
     Price |-> IF req.Price # Nil THEN Deref(req.Price) ELSE 0,
     Category |-> IF req.Category # Nil THEN Deref(req.Category) ELSE "",
     SKU |-> IF req.SKU # Nil THEN Deref(req.SKU) ELSE "",
     Stock |-> IF req.Stock # Nil THEN Deref(req.Stock) ELSE 0,
     IsActive |-> IF req.IsActive # Nil THEN Deref(req.IsActive) ELSE FALSE,
     CreatedAt |-> p.CreatedAt,
     UpdatedAt |-> now]

Update_KeepsUpdatedAt(p, req, now) ==
    [Update_ClearsAbsent(p, req, now) EXCEPT
        !.Name = IF req.Name # Nil THEN Deref(req.Name) ELSE p.Name,
        !.Description = IF req.Description # Nil THEN Deref(req.Description)
                        ELSE p.Description,
        !.Price = IF req.Price # Nil THEN Deref(req.Price) ELSE p.Price,
        !.Category = IF req.Category # Nil THEN Deref(req.Category) ELSE p.Category,
        !.SKU = IF req.SKU # Nil THEN Deref(req.SKU) ELSE p.SKU,
        !.Stock = IF req.Stock # Nil THEN Deref(req.Stock) ELSE p.Stock,
        !.IsActive = IF req.IsActive # Nil THEN Deref(req.IsActive) ELSE p.IsActive,
        !.UpdatedAt = p.UpdatedAt]

Update_ResetsCreatedAt(p, req, now) ==
    [Update_KeepsUpdatedAt(p, req, now) EXCEPT !.CreatedAt = now, !.UpdatedAt = now]

\* Mutant of Update: UpdatedAt is set only when the request sets a field.
Update_StampsOnChange(p, req, now) ==
    [Update_KeepsUpdatedAt(p, req, now) EXCEPT
        !.UpdatedAt = IF Present(req) = {} THEN p.UpdatedAt ELSE now]

Update(p, req, now) ==
    [ID |-> p.ID,
     Name |-> IF req.Name # Nil THEN Deref(req.Name) ELSE p.Name,
     Description |-> IF req.Description # Nil THEN Deref(req.Description)
                     ELSE p.Description,
     Price |-> IF req.Price # Nil THEN Deref(req.Price) ELSE p.Price,
     Category |-> IF req.Category # Nil THEN Deref(req.Category) ELSE p.Category,
     SKU |-> IF req.SKU # Nil THEN Deref(req.SKU) ELSE p.SKU,
     Stock |-> IF req.Stock # Nil THEN Deref(req.Stock) ELSE p.Stock,
     IsActive |-> IF req.IsActive # Nil THEN Deref(req.IsActive) ELSE p.IsActive,
     CreatedAt |-> p.CreatedAt,
     UpdatedAt |-> now]

(***************************************************************************)
(* Validation (service).  "" is the nil error.                             *)
(***************************************************************************)
\* Mutant of validateCreateRequest: a stock of 0 is rejected.
validateCreateRequest_RejectsZeroStock(req) ==
    IF req.Name = "" THEN "product name is required"
    ELSE IF req.Price <= 0 THEN "product price must be greater than 0"
    ELSE IF req.Category = "" THEN "product category is required"
    ELSE IF req.SKU = "" THEN "product SKU is required"
    ELSE IF req.Stock <= 0 THEN "product stock cannot be negative"
    ELSE ""

validateCreateRequest(req) ==
    IF req.Name = "" THEN "product name is required"
    ELSE IF req.Price <= 0 THEN "product price must be greater than 0"
    ELSE IF req.Category = "" THEN "product category is required"
    ELSE IF req.SKU = "" THEN "product SKU is required"
    ELSE IF req.Stock < 0 THEN "product stock cannot be negative"
    ELSE ""

\* Mutant of validateUpdateRequest: a present empty description is rejected.
validateUpdateRequest_RejectsEmptyDescription(req) ==
    IF req.Price # Nil /\ Deref(req.Price) <= 0
        THEN "product price must be greater than 0"
    ELSE IF req.Stock # Nil /\ Deref(req.Stock) < 0
        THEN "product stock cannot be negative"
    ELSE IF req.Name # Nil /\ Deref(req.Name) = ""
        THEN "product name cannot be empty"
    ELSE IF req.Description # Nil /\ Deref(req.Description) = ""
        THEN "product description cannot be empty"
    ELSE IF req.Category # Nil /\ Deref(req.Category) = ""
        THEN "product category cannot be empty"
    ELSE IF req.SKU # Nil /\ Deref(req.SKU) = ""
        THEN "product SKU cannot be empty"
    ELSE ""

validateUpdateRequest(req) ==
    IF req.Price # Nil /\ Deref(req.Price) <= 0
        THEN "product price must be greater than 0"
    ELSE IF req.Stock # Nil /\ Deref(req.Stock) < 0
        THEN "product stock cannot be negative"
    ELSE IF req.Name # Nil /\ Deref(req.Name) = ""
        THEN "product name cannot be empty"
    ELSE IF req.Category # Nil /\ Deref(req.Category) = ""
        THEN "product category cannot be empty"
    ELSE IF req.SKU # Nil /\ Deref(req.SKU) = ""
        THEN "product SKU cannot be empty"
    ELSE ""

(***************************************************************************)
(* Attribute maps.  dynamodbattribute.MarshalMap writes a string as an S   *)
(* attribute, the empty string as NULL, a number as N, a bool as BOOL and  *)
(* a time.Time as the S attribute of its RFC 3339 text (the instant, to    *)
(* the nanosecond); UnmarshalMap reads NULL back as the zero value.        *)
(***************************************************************************)
AvString(s) == IF s = "" THEN [t |-> "NULL", v |-> ""] ELSE [t |-> "S", v |-> s]
AvNumber(n) == [t |-> "N", v |-> n]
AvBool(b) == [t |-> "BOOL", v |-> b]
AvTime(instant) == [t |-> "S", v |-> instant]

\* Mutant of MarshalMap: the stock attribute is not written from the record.
MarshalMap_StockLost(p) ==
    [id |-> AvString(p.ID), name |-> AvString(p.Name),
     description |-> AvString(p.Description), price |-> AvNumber(p.Price),
     category |-> AvString(p.Category), sku |-> AvString(p.SKU),
     stock |-> AvNumber(0), is_active |-> AvBool(p.IsActive),
     created_at |-> AvTime(p.CreatedAt), updated_at |-> AvTime(p.UpdatedAt)]

MarshalMap(p) ==
    [id |-> AvString(p.ID), name |-> AvString(p.Name),
     description |-> AvString(p.Description), price |-> AvNumber(p.Price),
     category |-> AvString(p.Category), sku |-> AvString(p.SKU),
     stock |-> AvNumber(p.Stock), is_active |-> AvBool(p.IsActive),
     created_at |-> AvTime(p.CreatedAt), updated_at |-> AvTime(p.UpdatedAt)]

FromAvString(av) == IF av.t = "S" THEN av.v ELSE ""

\* UnmarshalMap fails on an attribute whose type the field cannot take: a
\* string field takes S and NULL, a number field N, a bool field BOOL, a
\* time field S.
UnmarshalFails(item) ==
    \/ \E a \in {"id", "name", "description", "category", "sku"} :
            item[a].t \notin {"S", "NULL"}
    \/ \E a \in {"price", "stock"} : item[a].t # "N"
    \/ item.is_active.t # "BOOL"
    \/ \E a \in {"created_at", "updated_at"} : item[a].t # "S"

UnmarshalMap(item) ==
    [ID |-> FromAvString(item.id), Name |-> FromAvString(item.name),
     Description |-> FromAvString(item.description), Price |-> item.price.v,
     Category |-> FromAvString(item.category), SKU |-> FromAvString(item.sku),
     Stock |-> item.stock.v, IsActive |-> item.is_active.v,
     CreatedAt |-> item.created_at.v, UpdatedAt |-> item.updated_at.v]

(***************************************************************************)
(* The store's operations, as the repository uses them.                    *)
(***************************************************************************)
PutItem(st, item) ==
    [k \in DOMAIN st \cup {item.id.v} |-> IF k = item.id.v THEN item ELSE st[k]]

GetItem(st, id) == IF id \in DOMAIN st THEN Ptr(st[id]) ELSE Nil

\* Mutant of DeleteItem: the delete goes by the category of the item, not by
\* its key.
DeleteItem_SameCategory(st, id) ==
    [k \in {k \in DOMAIN st : id \notin DOMAIN st \/ st[k].category # st[id].category}
        |-> st[k]]

DeleteItem(st, id) == [k \in DOMAIN st \ {id} |-> st[k]]

\* The items one Scan call can have read: the whole table when it fits in
\* one response, else any ScanPageItems of its items (the store chooses the
\* order).  The repository issues one Scan and does not ask for the rest
\* (LastEvaluatedKey is not looked at).
ScanPages(st) ==
    IF Cardinality(DOMAIN st) <= ScanPageItems THEN {DOMAIN st}
    ELSE {page \in SUBSET DOMAIN st : Cardinality(page) = ScanPageItems}

\* Mutant of FilterActive: the scan does not filter on is_active.
FilterActive_Ignored(item) == item.is_active.t = "BOOL"

\* FilterExpression "is_active = :active", :active = BOOL true
FilterActive(item) == item.is_active.t = "BOOL" /\ item.is_active.v = TRUE

\* FilterExpression "category = :category AND is_active = :active"
FilterCategoryActive(item, category) ==
    /\ item.category.t = "S" /\ item.category.v = category
    /\ FilterActive(item)

(***************************************************************************)
(* Repository, on a store whose call succeeds.                             *)
(***************************************************************************)
RepoCreate(st, product) == PutItem(st, MarshalMap(product))

\* Mutant of RepoGetByIDErr: a key the table does not hold is an error.
RepoGetByIDErr_AbsentIsError(st, id, ok) ==
    IF ok /\ GetItem(st, id) # Nil /\ ~UnmarshalFails(Deref(GetItem(st, id)))
    THEN NoErr ELSE ErrOther

\* The error repo.GetByID returns; ok: the GetItem call succeeds.  A key the
\* table does not hold is no error: the result is (nil, nil).
RepoGetByIDErr(st, id, ok) ==
    IF ~ok THEN ErrOther
    ELSE IF GetItem(st, id) = Nil THEN NoErr
    ELSE IF UnmarshalFails(Deref(GetItem(st, id))) THEN ErrOther
    ELSE NoErr

\* Mutant of RepoGetByID: an inactive record is reported as absent.
RepoGetByID_ActiveOnly(st, id) ==
    IF GetItem(st, id) = Nil \/ ~Deref(GetItem(st, id)).is_active.v THEN Nil
    ELSE Ptr(UnmarshalMap(Deref(GetItem(st, id))))

RepoGetByID(st, id) ==
    IF GetItem(st, id) = Nil THEN Nil ELSE Ptr(UnmarshalMap(Deref(GetItem(st, id))))

\* page: the items the Scan call read.
RepoGetAll(st, page) ==
    {UnmarshalMap(st[k]) : k \in {k \in page : FilterActive(st[k])}}

RepoGetByCategory(st, category, page) ==
    {UnmarshalMap(st[k]) : k \in {k \in page : FilterCategoryActive(st[k], category)}}

\* Mutant of RepoUpdate: a conditional write, which writes only over a
\* record the table holds.
RepoUpdate_OnlyExisting(st, product) ==
    IF product.ID \in DOMAIN st THEN PutItem(st, MarshalMap(product)) ELSE st

\* Mutant of RepoUpdate: a conditional write, which leaves a stored record
\* that is not older than the one to write.
RepoUpdate_KeepsNewer(st, product) ==
    IF product.ID \in DOMAIN st /\ st[product.ID].updated_at.v >= product.UpdatedAt
    THEN st
    ELSE PutItem(st, MarshalMap(product))

RepoUpdate(st, product) == PutItem(st, MarshalMap(product))

\* Mutant of RepoDeleteErr: deleting a key the table does not hold is an error.
RepoDeleteErr_AbsentIsError(st, id, ok) ==
    IF ok /\ id \in DOMAIN st THEN NoErr ELSE ErrOther

\* The error repo.Delete returns; ok: the DeleteItem call succeeds.
RepoDeleteErr(st, id, ok) == IF ok THEN NoErr ELSE ErrOther

\* Mutant of RepoDelete: a soft delete, which switches is_active off.
RepoDelete_SoftDelete(st, id) ==
    [k \in DOMAIN st |->
        IF k = id THEN [st[k] EXCEPT !.is_active = AvBool(FALSE)] ELSE st[k]]

\* Mutant of RepoDelete: the item stays in the table.
RepoDelete_Keeps(st, id) == st

RepoDelete(st, id) == DeleteItem(st, id)

(***************************************************************************)
(* Process state                                                           *)
(***************************************************************************)
\* id: the id or category argument; req: the request argument; loaded: what
\* repo.GetByID returned; product: the record the call builds.
NoLocals == [id |-> "", req |-> Nil, loaded |-> Nil, product |-> Nil]
NoResult == [op |-> "", err |-> "", msg |-> "", product |-> Nil, products |-> {}]

Failure(op, err, msg) ==
    [op |-> op, err |-> err, msg |-> msg, product |-> Nil, products |-> {}]
Success(op, product, products) ==
    [op |-> op, err |-> NoErr, msg |-> "", product |-> product, products |-> products]

\* The service over an empty table, no call under way.
Start ==
    /\ store = [k \in {} |-> 0]
    /\ clock = 0
    /\ nextId = 0
    /\ pc = [p \in Procs |-> "idle"]
    /\ loc = [p \in Procs |-> NoLocals]
    /\ calls = [p \in Procs |-> <<>>]
    /\ result = [p \in Procs |-> NoResult]

Init == Start /\ input = Nil

\* p's call returns r.
Finish(p, r) ==
    /\ pc' = [pc EXCEPT ![p] = "done"]
    /\ result' = [result EXCEPT ![p] = r]

\* p's call issues the store call c.
Issue(p, c) == calls' = [calls EXCEPT ![p] = Append(@, c)]

(***************************************************************************)
(* CreateProduct (product_service.go 35-47)                                *)
(***************************************************************************)
\* Mutant of CreateProduct_New: the record is built and stored before the
\* request is validated.
CreateProduct_New_StoresFirst(p, req) ==
    /\ pc[p] = "idle"
    /\ clock < MaxClock
    /\ nextId < MaxUUID
    /\ clock' = clock + 1
    /\ nextId' = nextId + 1
    /\ Issue(p, "PutItem")
    /\ store' = RepoCreate(store, NewProduct(req, clock + 1, UUID(nextId + 1)))
    /\ loc' = [loc EXCEPT ![p] =
                  [NoLocals EXCEPT !.req = Ptr(req),
                       !.product = Ptr(NewProduct(req, clock + 1, UUID(nextId + 1)))]]
    /\ IF validateCreateRequest(req) # ""
       THEN Finish(p, Failure("CreateProduct", ErrInvalidProduct,
                              validateCreateRequest(req)))
       ELSE Finish(p, Success("CreateProduct",
                              Ptr(NewProduct(req, clock + 1, UUID(nextId + 1))), {}))
    /\ UNCHANGED input

\* validateCreateRequest, then models.NewProduct: time.Now() and uuid.New()
CreateProduct_New(p, req) ==
    /\ pc[p] = "idle"
    /\ IF validateCreateRequest(req) # ""
       THEN /\ Finish(p, Failure("CreateProduct", ErrInvalidProduct,
                                 validateCreateRequest(req)))
            /\ loc' = [loc EXCEPT ![p] = [NoLocals EXCEPT !.req = Ptr(req)]]
            /\ UNCHANGED <<store, clock, nextId, calls>>
       ELSE /\ clock < MaxClock
            /\ nextId < MaxUUID
            /\ clock' = clock + 1
            /\ nextId' = nextId + 1
            /\ loc' = [loc EXCEPT ![p] =
                          [NoLocals EXCEPT !.req = Ptr(req),
                               !.product = Ptr(NewProduct(req, clock + 1, UUID(nextId + 1)))]]
            /\ pc' = [pc EXCEPT ![p] = "create_put"]
            /\ UNCHANGED <<store, calls, result>>
    /\ UNCHANGED input

\* repo.Create: PutItem
CreateProduct_Put(p) ==
    /\ pc[p] = "create_put"
    /\ Issue(p, "PutItem")
    /\ \E ok \in BOOLEAN :
        IF ok
        THEN /\ store' = RepoCreate(store, Deref(loc[p].product))
             /\ Finish(p, Success("CreateProduct", loc[p].product, {}))
        ELSE /\ store' = store
             /\ Finish(p, Failure("CreateProduct", ErrOther, "failed to create product"))
    /\ UNCHANGED <<clock, nextId, loc>>
    /\ UNCHANGED input

(***************************************************************************)
(* GetProduct (49-64), GetAllProducts (66-73), GetProductsByCategory (75-86)*)
(* ok: whether the store call succeeds.                                    *)
(***************************************************************************)
\* Mutant of GetProductResult: no check of the id before the lookup.
GetProductResult_NoIdCheck(st, id, ok) ==
    IF RepoGetByIDErr(st, id, ok) # NoErr
        THEN Failure("GetProduct", ErrOther, "failed to get product")
    ELSE IF RepoGetByID(st, id) = Nil
        THEN Failure("GetProduct", ErrProductNotFound, "product not found")
    ELSE Success("GetProduct", RepoGetByID(st, id), {})

GetProductResult(st, id, ok) ==
    IF id = ""
        THEN Failure("GetProduct", ErrInvalidProduct, "product ID cannot be empty")
    ELSE IF RepoGetByIDErr(st, id, ok) # NoErr
        THEN Failure("GetProduct", ErrOther, "failed to get product")
    ELSE IF RepoGetByID(st, id) = Nil
        THEN Failure("GetProduct", ErrProductNotFound, "product not found")
    ELSE Success("GetProduct", RepoGetByID(st, id), {})

GetProduct(p, id) ==
    /\ pc[p] = "idle"
    /\ IF id = "" THEN UNCHANGED calls ELSE Issue(p, "GetItem")
    /\ \E ok \in BOOLEAN : Finish(p, GetProductResult(store, id, ok))
    /\ loc' = [loc EXCEPT ![p] = [NoLocals EXCEPT !.id = id]]
    /\ UNCHANGED <<store, clock, nextId>>
    /\ UNCHANGED input

GetAllProductsResult(st, ok, page) ==
    IF ~ok
        THEN Failure("GetAllProducts", ErrOther, "failed to get products")
    ELSE Success("GetAllProducts", Nil, RepoGetAll(st, page))

GetAllProducts(p) ==
    /\ pc[p] = "idle"
    /\ Issue(p, "Scan")
    /\ \E ok \in BOOLEAN, page \in ScanPages(store) :
            Finish(p, GetAllProductsResult(store, ok, page))
    /\ UNCHANGED <<store, clock, nextId, loc>>
    /\ UNCHANGED input

GetProductsByCategoryResult(st, category, ok, page) ==
    IF category = ""
        THEN Failure("GetProductsByCategory", ErrInvalidProduct,
                     "category cannot be empty")
    ELSE IF ~ok
        THEN Failure("GetProductsByCategory", ErrOther,
                     "failed to get products by category")
    ELSE Success("GetProductsByCategory", Nil, RepoGetByCategory(st, category, page))

GetProductsByCategory(p, category) ==
    /\ pc[p] = "idle"
    /\ IF category = "" THEN UNCHANGED calls ELSE Issue(p, "Scan")
    /\ \E ok \in BOOLEAN, page \in ScanPages(store) :
            Finish(p, GetProductsByCategoryResult(store, category, ok, page))
    /\ loc' = [loc EXCEPT ![p] = [NoLocals EXCEPT !.id = category]]
    /\ UNCHANGED <<store, clock, nextId>>
    /\ UNCHANGED input

(***************************************************************************)
(* UpdateProduct (88-113)                                                  *)
(***************************************************************************)
\* Mutant of UpdateProductCheck: the request is validated before the lookup.
UpdateProductCheck_ValidatesFirst(st, id, req, ok) ==
    IF id = ""
        THEN Failure("UpdateProduct", ErrInvalidProduct, "product ID cannot be empty")
    ELSE IF validateUpdateRequest(req) # ""
        THEN Failure("UpdateProduct", ErrInvalidProduct, validateUpdateRequest(req))
    ELSE IF RepoGetByIDErr(st, id, ok) # NoErr
        THEN Failure("UpdateProduct", ErrOther, "failed to get product for update")
    ELSE IF RepoGetByID(st, id) = Nil
        THEN Failure("UpdateProduct", ErrProductNotFound, "product not found")
    ELSE NoResult

\* Mutant of UpdateProductCheck: an inactive record counts as not found.
UpdateProductCheck_ActiveOnly(st, id, req, ok) ==
    IF id = ""
        THEN Failure("UpdateProduct", ErrInvalidProduct, "product ID cannot be empty")
    ELSE IF RepoGetByIDErr(st, id, ok) # NoErr
        THEN Failure("UpdateProduct", ErrOther, "failed to get product for update")
    ELSE IF RepoGetByID(st, id) = Nil \/ ~Deref(RepoGetByID(st, id)).IsActive
        THEN Failure("UpdateProduct", ErrProductNotFound, "product not found")
    ELSE IF validateUpdateRequest(req) # ""
        THEN Failure("UpdateProduct", ErrInvalidProduct, validateUpdateRequest(req))
    ELSE NoResult

\* The checks before product.Update: the id check, repo.GetByID, the nil
\* check and validateUpdateRequest.  NoResult: all of them passed.
UpdateProductCheck(st, id, req, ok) ==
    IF id = ""
        THEN Failure("UpdateProduct", ErrInvalidProduct, "product ID cannot be empty")
    ELSE IF RepoGetByIDErr(st, id, ok) # NoErr
        THEN Failure("UpdateProduct", ErrOther, "failed to get product for update")
    ELSE IF RepoGetByID(st, id) = Nil
        THEN Failure("UpdateProduct", ErrProductNotFound, "product not found")
    ELSE IF validateUpdateRequest(req) # ""
        THEN Failure("UpdateProduct", ErrInvalidProduct, validateUpdateRequest(req))
    ELSE NoResult

UpdateProduct_Load(p, id, req) ==
    /\ pc[p] = "idle"
    /\ IF id = "" THEN UNCHANGED calls ELSE Issue(p, "GetItem")
    /\ \E ok \in BOOLEAN :
        IF UpdateProductCheck(store, id, req, ok) # NoResult
        THEN /\ Finish(p, UpdateProductCheck(store, id, req, ok))
             /\ loc' = [loc EXCEPT ![p] =
                           [id |-> id, req |-> Ptr(req),
                            loaded |-> IF id # "" /\ RepoGetByIDErr(store, id, ok) = NoErr
                                       THEN RepoGetByID(store, id) ELSE Nil,
                            product |-> Nil]]
        ELSE /\ loc' = [loc EXCEPT ![p] =
                           [id |-> id, req |-> Ptr(req),
                            loaded |-> RepoGetByID(store, id),
                            product |-> RepoGetByID(store, id)]]
             /\ pc' = [pc EXCEPT ![p] = "update_apply"]
             /\ UNCHANGED result
    /\ UNCHANGED <<store, clock, nextId>>
    /\ UNCHANGED input

\* product.Update(req): time.Now() and the assignments
UpdateProduct_Apply(p) ==
    /\ pc[p] = "update_apply"
    /\ clock < MaxClock
    /\ clock' = clock + 1
    /\ loc' = [loc EXCEPT ![p].product =
                  Ptr(Update(Deref(loc[p].product), Deref(loc[p].req), clock + 1))]
    /\ pc' = [pc EXCEPT ![p] = "update_put"]
    /\ UNCHANGED <<store, nextId, calls, result>>
    /\ UNCHANGED input

\* repo.Update: PutItem
UpdateProduct_Put(p) ==
    /\ pc[p] = "update_put"
    /\ Issue(p, "PutItem")
    /\ \E ok \in BOOLEAN :
        IF ok
        THEN /\ store' = RepoUpdate(store, Deref(loc[p].product))
             /\ Finish(p, Success("UpdateProduct", loc[p].product, {}))
        ELSE /\ store' = store
             /\ Finish(p, Failure("UpdateProduct", ErrOther, "failed to update product"))
    /\ UNCHANGED <<clock, nextId, loc>>
    /\ UNCHANGED input

(***************************************************************************)
(* DeleteProduct (115-134)                                                 *)
(***************************************************************************)
\* The checks before repo.Delete: the id check, repo.GetByID and the nil
\* check.  NoResult: all of them passed.
\* Mutant of DeleteProductCheck: the error of the lookup is dropped, and the
\* delete goes ahead.
DeleteProductCheck_IgnoresReadError(st, id, ok) ==
    IF id = ""
        THEN Failure("DeleteProduct", ErrInvalidProduct, "product ID cannot be empty")
    ELSE IF RepoGetByIDErr(st, id, ok) = NoErr /\ RepoGetByID(st, id) = Nil
        THEN Failure("DeleteProduct", ErrProductNotFound, "product not found")
    ELSE NoResult

DeleteProductCheck(st, id, ok) ==
    IF id = ""
        THEN Failure("DeleteProduct", ErrInvalidProduct, "product ID cannot be empty")
    ELSE IF RepoGetByIDErr(st, id, ok) # NoErr
        THEN Failure("DeleteProduct", ErrOther, "failed to get product for deletion")
    ELSE IF RepoGetByID(st, id) = Nil
        THEN Failure("DeleteProduct", ErrProductNotFound, "product not found")
    ELSE NoResult

DeleteProduct_Load(p, id) ==
    /\ pc[p] = "idle"
    /\ IF id = "" THEN UNCHANGED calls ELSE Issue(p, "GetItem")
    /\ \E ok \in BOOLEAN :
        /\ loc' = [loc EXCEPT ![p] =
                      [NoLocals EXCEPT !.id = id,
                           !.loaded = IF id # "" /\ RepoGetByIDErr(store, id, ok) = NoErr
                                      THEN RepoGetByID(store, id) ELSE Nil]]
        /\ IF DeleteProductCheck(store, id, ok) # NoResult
           THEN Finish(p, DeleteProductCheck(store, id, ok))
           ELSE /\ pc' = [pc EXCEPT ![p] = "delete_del"]
                /\ UNCHANGED result
    /\ UNCHANGED <<store, clock, nextId>>
    /\ UNCHANGED input

\* repo.Delete: DeleteItem
DeleteProduct_Del(p) ==
    /\ pc[p] = "delete_del"
    /\ Issue(p, "DeleteItem")
    /\ \E ok \in BOOLEAN :
        IF RepoDeleteErr(store, loc[p].id, ok) = NoErr
        THEN /\ store' = RepoDelete(store, loc[p].id)
             /\ Finish(p, Success("DeleteProduct", Nil, {}))
        ELSE /\ store' = store
             /\ Finish(p, Failure("DeleteProduct", ErrOther, "failed to delete product"))
    /\ UNCHANGED <<clock, nextId, loc>>
    /\ UNCHANGED input

\* The caller takes the result; the process is free for its next call.
Return(p) ==
    /\ pc[p] = "done"
    /\ pc' = [pc EXCEPT ![p] = "idle"]
    /\ loc' = [loc EXCEPT ![p] = NoLocals]
    /\ calls' = [calls EXCEPT ![p] = <<>>]
    /\ result' = [result EXCEPT ![p] = NoResult]
    /\ UNCHANGED <<store, clock, nextId>>
    /\ UNCHANGED input

(***************************************************************************)
(* Transport adapter (handlers).  The HTTP status the handler of op writes *)
(* when its service call returned the error err: the errors.Is tests after *)
(* the call, in the handler's order.                                       *)
(***************************************************************************)
HandlerErrorStatus(op, err) ==
    CASE op = "CreateProduct" ->
            IF err = ErrInvalidProduct THEN 400 ELSE 500
      [] op = "GetProduct" ->
            IF err = ErrProductNotFound THEN 404 ELSE 500
      [] op = "GetAllProducts" -> 500
      [] op = "GetProductsByCategory" -> 500
      [] op = "UpdateProduct" ->
            IF err = ErrProductNotFound THEN 404
            ELSE IF err = ErrInvalidProduct THEN 400
            ELSE 500
      [] op = "DeleteProduct" ->
            IF err = ErrProductNotFound THEN 404 ELSE 500

\* The error of c.ShouldBindJSON on a body that decodes to req, by the binding
\* tags of CreateProductRequest.  "required" fails on the zero value of the
\* field's type ("" for a string, 0 for a number, which is also what a field
\* the body leaves out decodes to); gt=0 and gte=0 compare the number.
ErrBinding == "ErrBinding"

ShouldBindJSON(req) ==
    IF /\ req.Name # ""
       /\ req.Price # 0 /\ req.Price > 0
       /\ req.Category # ""
       /\ req.SKU # ""
       /\ req.Stock # 0 /\ req.Stock >= 0
    THEN NoErr
    ELSE ErrBinding

\* ProductHandler.CreateProduct (23-50): a body the binding rejects is
\* answered with "Invalid request body" and the service is not called;
\* otherwise the handler calls the service's CreateProduct.
HandlerCreateProduct(p, req) ==
    IF ShouldBindJSON(req) # NoErr
    THEN /\ pc[p] = "idle"
         /\ Finish(p, Failure("CreateProduct", ErrBinding, "Invalid request body"))
         /\ loc' = [loc EXCEPT ![p] = [NoLocals EXCEPT !.req = Ptr(req)]]
         /\ UNCHANGED <<store, clock, nextId, calls>>
         /\ UNCHANGED input
    ELSE CreateProduct_New(p, req)

\* One client: every call runs from its first step to its last with no step
\* of another call in between.
Next ==
    \/ \E req \in CreateRequests : CreateProduct_New("p1", req)
    \/ CreateProduct_Put("p1")
    \/ \E id \in IdInputs : GetProduct("p1", id)
    \/ GetAllProducts("p1")
    \/ \E category \in Categories : GetProductsByCategory("p1", category)
    \/ \E id \in IdInputs, req \in UpdateRequests : UpdateProduct_Load("p1", id, req)
    \/ UpdateProduct_Apply("p1")
    \/ UpdateProduct_Put("p1")
    \/ \E id \in IdInputs : DeleteProduct_Load("p1", id)
    \/ DeleteProduct_Del("p1")
    \/ Return("p1")

Spec == Init /\ [][Next]_vars

\* Two clients, whose calls interleave step by step.
NextConc ==
    \/ \E p \in Procs, req \in ConcCreateRequests : CreateProduct_New(p, req)
    \/ \E p \in Procs : CreateProduct_Put(p)
    \/ \E p \in Procs, id \in IdInputs : GetProduct(p, id)
    \/ \E p \in Procs : GetAllProducts(p)
    \/ \E p \in Procs, category \in Categories : GetProductsByCategory(p, category)
    \/ \E p \in Procs, id \in IdInputs, req \in ConcUpdateRequests :
            UpdateProduct_Load(p, id, req)
    \/ \E p \in Procs : UpdateProduct_Apply(p)
    \/ \E p \in Procs : UpdateProduct_Put(p)
    \/ \E p \in Procs, id \in IdInputs : DeleteProduct_Load(p, id)
    \/ \E p \in Procs : DeleteProduct_Del(p)
    \/ \E p \in Procs : Return(p)

SpecConc == Init /\ [][NextConc]_vars

\* One client that sends one create request, any of AllCreateRequests, and
\* reads the records back.
InitCreate == Start /\ input \in {Ptr(req) : req \in AllCreateRequests}

NextCreate ==
    \/ CreateProduct_New("p1", Deref(input))
    \/ CreateProduct_Put("p1")
    \/ \E id \in IdInputs : GetProduct("p1", id)
    \/ Return("p1")

SpecCreate == InitCreate /\ [][NextCreate]_vars

\* One client that creates records and sends one update request, any of
\* AllUpdateRequests.
InitUpdate == Start /\ input \in {Ptr(req) : req \in AllUpdateRequests}

NextUpdate ==
    \/ CreateProduct_New("p1", BaseCreate)
    \/ CreateProduct_Put("p1")
    \/ \E id \in IdInputs : UpdateProduct_Load("p1", id, Deref(input))
    \/ UpdateProduct_Apply("p1")
    \/ UpdateProduct_Put("p1")
    \/ Return("p1")

SpecUpdate == InitUpdate /\ [][NextUpdate]_vars

\* Two clients, whose calls interleave step by step and whose updates switch
\* isActive off and on.
NextActive ==
    \/ \E p \in Procs : CreateProduct_New(p, BaseCreate)
    \/ \E p \in Procs : CreateProduct_Put(p)
    \/ \E p \in Procs : GetAllProducts(p)
    \/ \E p \in Procs, category \in Categories : GetProductsByCategory(p, category)
    \/ \E p \in Procs, id \in UUIDs, req \in ActiveUpdateRequests :
            UpdateProduct_Load(p, id, req)
    \/ \E p \in Procs : UpdateProduct_Apply(p)
    \/ \E p \in Procs : UpdateProduct_Put(p)
    \/ \E p \in Procs, id \in UUIDs : DeleteProduct_Load(p, id)
    \/ \E p \in Procs : DeleteProduct_Del(p)
    \/ \E p \in Procs : Return(p)

SpecActive == Init /\ [][NextActive]_vars

\* One client that sends one create request, any of AllCreateRequests, to the
\* handler.
NextHandler ==
    \/ HandlerCreateProduct("p1", Deref(input))
    \/ CreateProduct_Put("p1")
    \/ \E id \in IdInputs : GetProduct("p1", id)
    \/ Return("p1")

SpecHandler == InitCreate /\ [][NextHandler]_vars

(***************************************************************************)
(* Properties.                                                             *)
(*                                                                         *)
(* What the properties call a working store: the store calls of the call   *)
(* in question succeed.  A call whose store call fails returns an error    *)
(* that wraps neither sentinel (err = ErrOther).                           *)
(***************************************************************************)
Done(p, op) == pc[p] = "done" /\ result[p].op = op

RequestFields == {"Name", "Description", "Price", "Category", "SKU", "Stock", "IsActive"}

\* The rules of the create validation, in the order the properties state them.
ValidCreate(req) ==
    /\ req.Name # ""
    /\ req.Price > 0
    /\ req.Category # ""
    /\ req.SKU # ""
    /\ req.Stock >= 0

CreateRuleBroken(req) ==
    <<req.Name = "", ~(req.Price > 0), req.Category = "", req.SKU = "", ~(req.Stock >= 0)>>

CreateRuleMessage ==
    <<"product name is required", "product price must be greater than 0",
      "product category is required", "product SKU is required",
      "product stock cannot be negative">>

FirstBrokenCreateRule(req) ==
    CHOOSE i \in 1..5 :
        /\ CreateRuleBroken(req)[i]
        /\ \A j \in 1..(i - 1) : ~CreateRuleBroken(req)[j]

\* The rules of the update validation: only present fields are looked at.
ValidUpdate(req) ==
    /\ req.Price # Nil => Deref(req.Price) > 0
    /\ req.Stock # Nil => Deref(req.Stock) >= 0
    /\ req.Name # Nil => Deref(req.Name) # ""
    /\ req.Category # Nil => Deref(req.Category) # ""
    /\ req.SKU # Nil => Deref(req.SKU) # ""

(***************************************************************************)
(* C1: whatever the table holds, and after any sequence of calls, neither  *)
(* GetAll nor GetByCategory(c) yields a record whose isActive is false:    *)
(* this holds of the repository on the current table and of every result   *)
(* GetAllProducts and GetProductsByCategory returned.                      *)
(***************************************************************************)
C1_ListingsHoldNoInactiveRecord ==
    /\ \A page \in ScanPages(store) :
        /\ \A r \in RepoGetAll(store, page) : r.IsActive = TRUE
        /\ \A c \in Categories :
            \A r \in RepoGetByCategory(store, c, page) : r.IsActive = TRUE
    /\ \A p \in Procs :
        (Done(p, "GetAllProducts") \/ Done(p, "GetProductsByCategory"))
            => \A r \in result[p].products : r.IsActive = TRUE

\* GetAllProducts returned records while the table holds an inactive one.
C1_Witness ==
    \E p \in Procs :
        /\ Done(p, "GetAllProducts")
        /\ result[p].products # {}
        /\ \E k \in DOMAIN store : store[k].is_active.v = FALSE

(***************************************************************************)
(* C2: lookup by id does not depend on isActive.  For every record in the  *)
(* table, inactive ones included, repository GetByID yields the record     *)
(* under that id, and a GetProduct(id) whose store call succeeds returns   *)
(* it.                                                                     *)
(***************************************************************************)
C2_InactiveRecordFoundById ==
    /\ \A k \in DOMAIN store :
        /\ RepoGetByID(store, k) # Nil
        /\ Deref(RepoGetByID(store, k)).ID = k
        /\ Deref(RepoGetByID(store, k)).IsActive = store[k].is_active.v
        /\ GetProductResult(store, k, TRUE).err = NoErr
    /\ \A p \in Procs :
        (Done(p, "GetProduct") /\ loc[p].id \in DOMAIN store /\ result[p].err # ErrOther)
            => /\ result[p].err = NoErr
               /\ result[p].product # Nil
               /\ Deref(result[p].product).ID = loc[p].id
               /\ Deref(result[p].product).IsActive = store[loc[p].id].is_active.v

\* GetProduct returned an inactive record.
C2_Witness ==
    \E p \in Procs :
        /\ Done(p, "GetProduct")
        /\ result[p].err = NoErr
        /\ Deref(result[p].product).IsActive = FALSE

(***************************************************************************)
(* C3: for a create request that passes validation, a CreateProduct whose  *)
(* store call succeeds returns a record with the request's name,           *)
(* description, price, category, sku and stock and with isActive true; a   *)
(* GetProduct with the returned id then yields that same record, and every *)
(* record GetProduct returns carries the request's values.                 *)
(***************************************************************************)
CarriesRequest(product, req) ==
    /\ product.Name = req.Name
    /\ product.Description = req.Description
    /\ product.Price = req.Price
    /\ product.Category = req.Category
    /\ product.SKU = req.SKU
    /\ product.Stock = req.Stock
    /\ product.IsActive = TRUE

C3_CreateReturnsRequestAndIsReadBack ==
    /\ (Done("p1", "CreateProduct") /\ ValidCreate(Deref(input))
            /\ result["p1"].err # ErrOther)
        => /\ result["p1"].err = NoErr
           /\ result["p1"].product # Nil
           /\ CarriesRequest(Deref(result["p1"].product), Deref(input))
           /\ GetProductResult(store, Deref(result["p1"].product).ID, TRUE)
                = Success("GetProduct", result["p1"].product, {})
    /\ (Done("p1", "GetProduct") /\ result["p1"].err = NoErr)
        => /\ CarriesRequest(Deref(result["p1"].product), Deref(input))
           /\ Deref(result["p1"].product).ID = loc["p1"].id

\* A created record with an empty description and a stock of 1 was read back.
C3_Witness ==
    /\ Done("p1", "GetProduct")
    /\ result["p1"].err = NoErr
    /\ Deref(input).Description = ""
    /\ Deref(input).Stock = 1

(***************************************************************************)
(* C4: CreateProduct passes validation exactly when name is non-empty,     *)
(* price > 0, category is non-empty, sku is non-empty and stock >= 0 (a    *)
(* stock of 0 passes); otherwise it fails with ErrInvalidProduct and the   *)
(* message of the first broken rule in the order name, price, category,    *)
(* sku, stock, and builds no record.                                       *)
(***************************************************************************)
C4_CreateValidation ==
    /\ Done("p1", "CreateProduct") =>
        IF ValidCreate(Deref(input))
        THEN result["p1"].err \in {NoErr, ErrOther}
        ELSE /\ result["p1"].err = ErrInvalidProduct
             /\ result["p1"].msg = CreateRuleMessage[FirstBrokenCreateRule(Deref(input))]
             /\ loc["p1"].product = Nil
             /\ calls["p1"] = <<>>
    /\ pc["p1"] = "create_put" => ValidCreate(Deref(input))
    /\ (pc["p1"] = "idle" /\ ValidCreate(Deref(input)) /\ clock < MaxClock
            /\ nextId < MaxUUID)
        => ENABLED (CreateProduct_New("p1", Deref(input)) /\ pc'["p1"] = "create_put")

\* A request that breaks the price rule and the stock rule was rejected
\* with the message of the price rule.
C4_Witness ==
    /\ Done("p1", "CreateProduct")
    /\ Deref(input).Name # ""
    /\ Deref(input).Price <= 0
    /\ Deref(input).Stock < 0
    /\ result["p1"].msg = "product price must be greater than 0"

(***************************************************************************)
(* C5: GetProduct(id) with an empty id fails with ErrInvalidProduct and    *)
(* issues no store call.  With a non-empty id it issues one GetItem; when  *)
(* that call succeeds, GetProduct fails with ErrProductNotFound exactly    *)
(* when the table has no record under the id, and otherwise returns the    *)
(* stored record.                                                          *)
(***************************************************************************)
C5_GetProductOutcome ==
    \A p \in Procs :
        Done(p, "GetProduct") =>
            IF loc[p].id = ""
            THEN /\ result[p].err = ErrInvalidProduct
                 /\ calls[p] = <<>>
            ELSE /\ calls[p] = <<"GetItem">>
                 /\ result[p].err # ErrInvalidProduct
                 /\ result[p].err = ErrProductNotFound => loc[p].id \notin DOMAIN store
                 /\ result[p].err # ErrOther =>
                        IF loc[p].id \in DOMAIN store
                        THEN /\ result[p].err = NoErr
                             /\ result[p].product = Ptr(UnmarshalMap(store[loc[p].id]))
                        ELSE /\ result[p].err = ErrProductNotFound
                             /\ result[p].product = Nil

\* GetProduct failed with ErrProductNotFound on a non-empty id while the
\* table holds another record.
C5_Witness ==
    \E p \in Procs :
        /\ Done(p, "GetProduct")
        /\ result[p].err = ErrProductNotFound
        /\ loc[p].id # ""
        /\ DOMAIN store # {}

(***************************************************************************)
(* C6: UpdateProduct(id, req) checks in this order.  An empty id gives     *)
(* ErrInvalidProduct before any store call.  Then, the lookup having       *)
(* succeeded, an absent record gives ErrProductNotFound, also when req is  *)
(* invalid.  Then an invalid req gives ErrInvalidProduct.  The request is  *)
(* applied and PutItem issued only when the id is non-empty, the record    *)
(* was found and req is valid.                                             *)
(***************************************************************************)
C6_UpdateCheckOrder ==
    \A p \in Procs :
        /\ Done(p, "UpdateProduct") =>
            IF loc[p].id = ""
            THEN /\ result[p].err = ErrInvalidProduct
                 /\ result[p].msg = "product ID cannot be empty"
                 /\ calls[p] = <<>>
            ELSE IF calls[p] = <<"GetItem">> /\ result[p].err # ErrOther
            THEN IF loc[p].loaded = Nil
                 THEN result[p].err = ErrProductNotFound
                 ELSE /\ result[p].err = ErrInvalidProduct
                      /\ ~ValidUpdate(Deref(loc[p].req))
                      /\ result[p].msg # "product ID cannot be empty"
            ELSE result[p].err \in {NoErr, ErrOther}
        /\ (Done(p, "UpdateProduct") /\ loc[p].id # "" /\ ~ValidUpdate(Deref(loc[p].req)))
            => /\ result[p].err \in {ErrProductNotFound, ErrInvalidProduct, ErrOther}
               /\ result[p].err = ErrInvalidProduct <=> loc[p].loaded # Nil
        /\ (pc[p] \in {"update_apply", "update_put"}
                \/ (Done(p, "UpdateProduct") /\ calls[p] = <<"GetItem", "PutItem">>)
                \/ (Done(p, "UpdateProduct") /\ result[p].err = NoErr))
            => /\ loc[p].id # ""
               /\ loc[p].loaded # Nil
               /\ ValidUpdate(Deref(loc[p].req))

\* UpdateProduct with an invalid request on an id the table does not hold
\* failed with ErrProductNotFound.
C6_Witness ==
    \E p \in Procs :
        /\ Done(p, "UpdateProduct")
        /\ loc[p].id # ""
        /\ ~ValidUpdate(Deref(loc[p].req))
        /\ result[p].err = ErrProductNotFound

(***************************************************************************)
(* C7: when UpdateProduct(id, req) succeeds and the table still holds      *)
(* under id the record the call loaded (no other call wrote in between),   *)
(* the table afterwards holds under id a record in which every field       *)
(* present in req has the request's value and every field absent from req, *)
(* as well as id and createdAt, has the loaded record's value; the         *)
(* returned record is the stored one, and the table holds the same keys as *)
(* before.                                                                 *)
(***************************************************************************)
UpdateSucceeds(p) ==
    /\ pc[p] = "update_put"
    /\ pc'[p] = "done"
    /\ result'[p].err = NoErr

Undisturbed(p) == RepoGetByID(store, loc[p].id) = loc[p].loaded

C7_UpdateFrame ==
    [][\A p \in Procs :
        (UpdateSucceeds(p) /\ Undisturbed(p)) =>
            /\ loc[p].id \in DOMAIN store'
            /\ LET old == Deref(loc[p].loaded)
                   req == Deref(loc[p].req)
                   new == UnmarshalMap(store'[loc[p].id])
               IN  /\ \A f \in RequestFields :
                        new[f] = IF req[f] # Nil THEN Deref(req[f]) ELSE old[f]
                   /\ new.ID = loc[p].id
                   /\ new.ID = old.ID
                   /\ new.CreatedAt = old.CreatedAt
                   /\ result'[p].product = Ptr(new)
            /\ DOMAIN store' = DOMAIN store
            /\ Cardinality(DOMAIN store') = Cardinality(DOMAIN store)]_vars

\* An UpdateProduct that set some fields and left others absent succeeded
\* and changed a value.
C7_Witness ==
    \E p \in Procs :
        /\ Done(p, "UpdateProduct")
        /\ result[p].err = NoErr
        /\ Cardinality(Present(Deref(loc[p].req))) >= 2
        /\ \E f \in Present(Deref(loc[p].req)) :
                Deref(result[p].product)[f] # Deref(loc[p].loaded)[f]
        /\ Cardinality(DOMAIN store) >= 2

(***************************************************************************)
(* C8, as stated: for every id, every successful UpdateProduct on that id  *)
(* strictly increases the updatedAt of the stored record, also when        *)
(* several UpdateProduct calls on the id interleave their read and write   *)
(* steps.                                                                  *)
(***************************************************************************)
C8_UpdatedAtIncreasesUnderInterleaving ==
    [][\A p \in Procs :
        (UpdateSucceeds(p) /\ loc[p].id \in DOMAIN store) =>
            store'[loc[p].id].updated_at.v > store[loc[p].id].updated_at.v]_vars

(***************************************************************************)
(* C8, amended: every successful UpdateProduct stores an updatedAt         *)
(* strictly later than that of the record it loaded; so the updatedAt of   *)
(* the stored record strictly increases with every successful              *)
(* UpdateProduct that finds at its write the record it loaded (no other    *)
(* call wrote to the id in between).                                       *)
(***************************************************************************)
C8_UpdatedAtIncreasesWhenUndisturbed ==
    [][\A p \in Procs :
        UpdateSucceeds(p) =>
            /\ store'[loc[p].id].updated_at.v > Deref(loc[p].loaded).UpdatedAt
            /\ Undisturbed(p) =>
                store'[loc[p].id].updated_at.v > store[loc[p].id].updated_at.v]_vars

\* An UpdateProduct succeeded while another UpdateProduct on the same id,
\* which loaded the record before that write, has its own write to come.
C8_Witness ==
    \E p, q \in Procs :
        /\ p # q
        /\ Done(p, "UpdateProduct")
        /\ result[p].err = NoErr
        /\ pc[q] = "update_put"
        /\ loc[q].id = loc[p].id
        /\ loc[q].loaded = loc[p].loaded

(***************************************************************************)
(* C9: in every reachable state every record of the table has              *)
(* updatedAt >= createdAt, and the createdAt of a record never changes:    *)
(* no step changes it in the table, and every copy of the record a call    *)
(* holds (and may write back) carries it.                                  *)
(***************************************************************************)
C9_CreatedAtFixedAndNotAfterUpdatedAt ==
    [][/\ \A k \in DOMAIN store' :
            store'[k].updated_at.v >= store'[k].created_at.v
       /\ \A k \in DOMAIN store \cap DOMAIN store' :
            store'[k].created_at.v = store[k].created_at.v
       /\ \A p \in Procs :
            (loc'[p].product # Nil /\ Deref(loc'[p].product).ID \in DOMAIN store')
                => Deref(loc'[p].product).CreatedAt
                     = store'[Deref(loc'[p].product).ID].created_at.v]_vars

\* The table holds a record updated after its creation while a call holds
\* another copy of the record to write back.
C9_Witness ==
    \E k \in DOMAIN store :
        /\ store[k].updated_at.v > store[k].created_at.v
        /\ \E p \in Procs : pc[p] = "update_put" /\ loc[p].id = k

(***************************************************************************)
(* C10: after a DeleteProduct(id) that succeeded, no other call            *)
(* interleaved, the record is gone: a GetProduct(id) and a second          *)
(* DeleteProduct(id) that follow, their store call succeeding, both fail   *)
(* with ErrProductNotFound.                                                *)
(***************************************************************************)
C10_DeletedRecordIsGone ==
    \A p \in Procs :
        (Done(p, "DeleteProduct") /\ result[p].err = NoErr) =>
            /\ loc[p].loaded # Nil
            /\ loc[p].id \notin DOMAIN store
            /\ GetProductResult(store, loc[p].id, TRUE).err = ErrProductNotFound
            /\ DeleteProductCheck(store, loc[p].id, TRUE).err = ErrProductNotFound

\* A DeleteProduct succeeded on a table that still holds another record.
C10_Witness ==
    \E p \in Procs :
        /\ Done(p, "DeleteProduct")
        /\ result[p].err = NoErr
        /\ DOMAIN store # {}

(***************************************************************************)
(* C11: the last overwrite wins.  The write of a successful UpdateProduct  *)
(* puts under the id the record the call loaded with its own request       *)
(* applied, whatever the table holds under the id at that moment: a field  *)
(* absent from the request takes the value the call loaded, not the value  *)
(* another call stored in between.  No call is given an error for it.  So  *)
(* two UpdateProduct calls on one id whose reads and writes interleave can *)
(* both succeed and leave a record without the change of one of them (the  *)
(* witness).                                                               *)
(***************************************************************************)
C11_LastOverwriteWins ==
    [][\A p \in Procs :
        UpdateSucceeds(p) =>
            /\ loc[p].id \in DOMAIN store'
            /\ LET old == Deref(loc[p].loaded)
                   req == Deref(loc[p].req)
                   new == UnmarshalMap(store'[loc[p].id])
               IN  /\ \A f \in RequestFields :
                        new[f] = IF req[f] # Nil THEN Deref(req[f]) ELSE old[f]
                   /\ result'[p].product = Ptr(new)
            /\ \A q \in Procs \ {p} : result'[q] = result[q]]_vars

\* Two UpdateProduct calls on one id loaded the same record and both
\* succeeded; the stored record lacks a change one of them made to a field
\* the other did not set.
C11_Witness ==
    \E p, q \in Procs :
        /\ p # q
        /\ Done(p, "UpdateProduct") /\ result[p].err = NoErr
        /\ Done(q, "UpdateProduct") /\ result[q].err = NoErr
        /\ loc[p].id = loc[q].id
        /\ loc[p].loaded = loc[q].loaded
        /\ loc[p].id \in DOMAIN store
        /\ \E f \in Present(Deref(loc[p].req)) \ Present(Deref(loc[q].req)) :
            /\ Deref(Deref(loc[p].req)[f]) # Deref(loc[p].loaded)[f]
            /\ Deref(result[p].product)[f] = Deref(Deref(loc[p].req)[f])
            /\ UnmarshalMap(store[loc[p].id])[f] = Deref(loc[p].loaded)[f]

(***************************************************************************)
(* C12: the update validation looks only at present fields.  An            *)
(* UpdateProduct that found its record fails with ErrInvalidProduct        *)
(* exactly when the request has a present price <= 0, a present stock < 0, *)
(* or a present empty name, category or sku, and then writes nothing;      *)
(* every other request, whatever its description and isActive and          *)
(* whichever fields are absent, is applied and written.                    *)
(***************************************************************************)
C12_UpdateValidation ==
    /\ (Done("p1", "UpdateProduct") /\ loc["p1"].loaded # Nil) =>
        IF ValidUpdate(Deref(input))
        THEN /\ result["p1"].err \in {NoErr, ErrOther}
             /\ calls["p1"] = <<"GetItem", "PutItem">>
        ELSE /\ result["p1"].err = ErrInvalidProduct
             /\ calls["p1"] = <<"GetItem">>
             /\ Present(Deref(input)) \cap {"Price", "Stock", "Name", "Category", "SKU"} # {}
    /\ pc["p1"] \in {"update_apply", "update_put"} => ValidUpdate(Deref(input))
    /\ (Done("p1", "UpdateProduct") /\ result["p1"].err = ErrInvalidProduct
            /\ loc["p1"].id # "")
        => ~ValidUpdate(Deref(input))

\* A request with an empty description, isActive false, a stock of 0 and no
\* name was applied and written.
C12_Witness ==
    /\ Done("p1", "UpdateProduct")
    /\ result["p1"].err = NoErr
    /\ Deref(input).Description = Ptr("")
    /\ Deref(input).IsActive = Ptr(FALSE)
    /\ Deref(input).Stock = Ptr(0)
    /\ Deref(input).Name = Nil

(***************************************************************************)
(* C13: every record NewProduct produces has a non-empty id, isActive true *)
(* and createdAt = updatedAt; its id is none that an earlier NewProduct    *)
(* call produced, none of a stored record and none of a record another     *)
(* call has produced and not yet stored.  So the write of a CreateProduct  *)
(* adds a key and leaves every stored record as it was, and every stored   *)
(* record lies under its own id.                                           *)
(***************************************************************************)
Issued(n) == {UUID(i) : i \in 1..n}

C13_NewProductIdsAreFresh ==
    [][/\ \A p \in Procs :
            (pc[p] = "idle" /\ pc'[p] = "create_put") =>
                LET r == Deref(loc'[p].product)
                IN  /\ r.ID # ""
                    /\ r.IsActive = TRUE
                    /\ r.CreatedAt = r.UpdatedAt
                    /\ r.ID \notin Issued(nextId)
                    /\ r.ID \in Issued(nextId')
                    /\ r.ID \notin DOMAIN store
                    /\ \A q \in Procs \ {p} :
                        loc[q].product # Nil => Deref(loc[q].product).ID # r.ID
       /\ \A p \in Procs :
            (pc[p] = "create_put" /\ pc'[p] = "done" /\ result'[p].err = NoErr) =>
                LET r == Deref(loc[p].product)
                IN  /\ r.ID \notin DOMAIN store
                    /\ DOMAIN store' = DOMAIN store \cup {r.ID}
                    /\ \A k \in DOMAIN store : store'[k] = store[k]
                    /\ UnmarshalMap(store'[r.ID]) = r
       /\ \A k \in DOMAIN store' :
            /\ UnmarshalMap(store'[k]).ID = k
            /\ k \in Issued(nextId')]_vars

\* Two CreateProduct calls that ran at the same time both succeeded, and the
\* table holds both records.
C13_Witness ==
    \E p, q \in Procs :
        /\ p # q
        /\ Done(p, "CreateProduct") /\ result[p].err = NoErr
        /\ Done(q, "CreateProduct") /\ result[q].err = NoErr
        /\ Deref(result[p].product).ID # Deref(result[q].product).ID
        /\ {Deref(result[p].product).ID, Deref(result[q].product).ID} \subseteq DOMAIN store

(***************************************************************************)
(* C14: applying a request in which every field is absent leaves name,     *)
(* description, price, category, sku, stock and isActive (and id and       *)
(* createdAt) as loaded and sets a later updatedAt; a successful           *)
(* UpdateProduct with such a request has issued its PutItem, and the table *)
(* then holds the record with the later updatedAt.                         *)
(***************************************************************************)
SameButLater(new, old) ==
    /\ \A f \in RequestFields : new[f] = old[f]
    /\ new.ID = old.ID
    /\ new.CreatedAt = old.CreatedAt
    /\ new.UpdatedAt > old.UpdatedAt

C14_EmptyUpdateStampsAndWrites ==
    /\ (pc["p1"] = "update_put" /\ loc["p1"].req = Ptr(EmptyUpdate))
        => SameButLater(Deref(loc["p1"].product), Deref(loc["p1"].loaded))
    /\ (Done("p1", "UpdateProduct") /\ result["p1"].err = NoErr
            /\ loc["p1"].req = Ptr(EmptyUpdate))
        => /\ calls["p1"] = <<"GetItem", "PutItem">>
           /\ SameButLater(Deref(result["p1"].product), Deref(loc["p1"].loaded))
           /\ loc["p1"].id \in DOMAIN store
           /\ UnmarshalMap(store[loc["p1"].id]) = Deref(result["p1"].product)
           /\ store[loc["p1"].id].updated_at.v > Deref(loc["p1"].loaded).UpdatedAt

\* An UpdateProduct with the empty request succeeded on a record that an
\* earlier update had made inactive.
C14_Witness ==
    /\ Done("p1", "UpdateProduct")
    /\ result["p1"].err = NoErr
    /\ loc["p1"].req = Ptr(EmptyUpdate)
    /\ Deref(loc["p1"].loaded).IsActive = FALSE
    /\ Deref(loc["p1"].loaded).UpdatedAt > Deref(loc["p1"].loaded).CreatedAt

(***************************************************************************)
(* C15: a GetAllProducts whose store call succeeds returns exactly the     *)
(* stored records whose isActive is true, however many records the table   *)
(* holds: every active record is in the result, and the result is empty    *)
(* (and no error) when there is none.                                      *)
(***************************************************************************)
ActiveRecords(st) ==
    {UnmarshalMap(st[k]) : k \in {k \in DOMAIN st : st[k].is_active.v = TRUE}}

C15_GetAllReturnsEveryActiveRecord ==
    (Done("p1", "GetAllProducts") /\ result["p1"].err = NoErr)
        => result["p1"].products = ActiveRecords(store)

(***************************************************************************)
(* C16: GetProductsByCategory(category) with an empty category fails with  *)
(* ErrInvalidProduct and issues no store call; otherwise, its store call   *)
(* succeeding, it returns exactly the stored records whose category is the *)
(* argument and whose isActive is true (so a record whose category an      *)
(* UpdateProduct changed from c1 to c2 is listed under c2 and not under     *)
(* c1).                                                                    *)
(***************************************************************************)
C16_GetProductsByCategoryOutcome ==
    Done("p1", "GetProductsByCategory") =>
        IF loc["p1"].id = ""
        THEN /\ result["p1"].err = ErrInvalidProduct
             /\ calls["p1"] = <<>>
        ELSE /\ calls["p1"] = <<"Scan">>
             /\ result["p1"].err \in {NoErr, ErrOther}
             /\ result["p1"].err = NoErr =>
                    result["p1"].products
                        = {r \in ActiveRecords(store) : r.Category = loc["p1"].id}

(***************************************************************************)
(* C17: on every reachable table, repository GetByID on a key the table    *)
(* does not hold returns an absent result and no error when the GetItem    *)
(* call succeeds (so the service reports ErrProductNotFound, not a wrapped *)
(* store error); it returns an error only when the GetItem call fails or   *)
(* the item cannot be deserialized, and no item the program stored is      *)
(* such.                                                                   *)
(***************************************************************************)
C17_AbsentKeyIsNoError ==
    /\ \A id \in UUIDs \ DOMAIN store :
        /\ RepoGetByIDErr(store, id, TRUE) = NoErr
        /\ RepoGetByID(store, id) = Nil
        /\ GetProductResult(store, id, TRUE).err = ErrProductNotFound
        /\ UpdateProductCheck(store, id, EmptyUpdate, TRUE).err = ErrProductNotFound
        /\ DeleteProductCheck(store, id, TRUE).err = ErrProductNotFound
    /\ \A id \in UUIDs, ok \in BOOLEAN :
        RepoGetByIDErr(store, id, ok) # NoErr
            => \/ ~ok
               \/ id \in DOMAIN store /\ UnmarshalFails(store[id])
    /\ \A k \in DOMAIN store : ~UnmarshalFails(store[k])
    /\ \A p \in Procs :
        (pc[p] = "done" /\ calls[p] = <<"GetItem">> /\ loc[p].id \notin DOMAIN store
                /\ result[p].err # ErrOther)
            => /\ result[p].err = ErrProductNotFound
               /\ result[p].product = Nil

\* A DeleteProduct on a key the table does not hold, its GetItem succeeding,
\* failed with ErrProductNotFound while the table holds another record.
C17_Witness ==
    \E p \in Procs :
        /\ Done(p, "DeleteProduct")
        /\ calls[p] = <<"GetItem">>
        /\ loc[p].id \in UUIDs \ DOMAIN store
        /\ result[p].err = ErrProductNotFound
        /\ DOMAIN store # {}

(***************************************************************************)
(* C18: repository Delete is idempotent.  On every reachable table and for *)
(* every key: Delete on a key the table does not hold returns no error     *)
(* (the DeleteItem call succeeding) and leaves the table as it is, and a   *)
(* second Delete right after a first returns no error and leaves the table *)
(* of the first.  A DeleteProduct whose record another call deleted after  *)
(* its lookup so succeeds without changing the table.                      *)
(***************************************************************************)
C18_RepoDeleteIdempotent ==
    [][/\ \A id \in UUIDs :
            /\ id \notin DOMAIN store =>
                /\ RepoDeleteErr(store, id, TRUE) = NoErr
                /\ RepoDelete(store, id) = store
            /\ RepoDeleteErr(RepoDelete(store, id), id, TRUE) = NoErr
            /\ RepoDelete(RepoDelete(store, id), id) = RepoDelete(store, id)
            /\ id \notin DOMAIN RepoDelete(store, id)
       /\ \A p \in Procs :
            (pc[p] = "delete_del" /\ pc'[p] = "done") =>
                /\ result'[p].err = NoErr => store' = RepoDelete(store, loc[p].id)
                /\ result'[p].err # NoErr => store' = store
                /\ loc[p].id \notin DOMAIN store => store' = store
                /\ loc[p].id \notin DOMAIN store =>
                        ENABLED (DeleteProduct_Del(p) /\ result'[p].err = NoErr)]_vars

\* Two DeleteProduct calls on one id both found the record and both
\* succeeded: the DeleteItem of the second met a key already deleted.
C18_Witness ==
    \E p, q \in Procs :
        /\ p # q
        /\ Done(p, "DeleteProduct") /\ result[p].err = NoErr
        /\ Done(q, "DeleteProduct") /\ result[q].err = NoErr
        /\ loc[p].id = loc[q].id
        /\ DOMAIN store # {}

(***************************************************************************)
(* C19: a failed store call ends the operation at once.  The step in which *)
(* a call returns an error that wraps neither sentinel is the step that    *)
(* issued the failed store call; the call returns no record and leaves the *)
(* table as it was, and the message names the store call that failed.  An  *)
(* operation issues each of its store calls at most once (no retry), none  *)
(* after it returned, and UpdateProduct and DeleteProduct go on to their   *)
(* write or delete only with the record a successful read returned: after  *)
(* a failed read they have issued the read and nothing else.               *)
(***************************************************************************)
StoreCallSequences ==
    {<<>>, <<"PutItem">>, <<"GetItem">>, <<"Scan">>, <<"GetItem", "PutItem">>,
     <<"GetItem", "DeleteItem">>}

\* The store calls op has issued when it returns with msg after a failed call.
CallsAtFailure(op, msg) ==
    CASE op = "CreateProduct" /\ msg = "failed to create product" -> <<"PutItem">>
      [] op = "GetProduct" /\ msg = "failed to get product" -> <<"GetItem">>
      [] op = "GetAllProducts" /\ msg = "failed to get products" -> <<"Scan">>
      [] op = "GetProductsByCategory" /\ msg = "failed to get products by category"
            -> <<"Scan">>
      [] op = "UpdateProduct" /\ msg = "failed to get product for update" -> <<"GetItem">>
      [] op = "UpdateProduct" /\ msg = "failed to update product"
            -> <<"GetItem", "PutItem">>
      [] op = "DeleteProduct" /\ msg = "failed to get product for deletion"
            -> <<"GetItem">>
      [] op = "DeleteProduct" /\ msg = "failed to delete product"
            -> <<"GetItem", "DeleteItem">>
      [] OTHER -> <<"none">>

C19_FailedStoreCallEndsOperation ==
    [][\A p \in Procs :
        /\ (pc[p] # "done" /\ pc'[p] = "done" /\ result'[p].err = ErrOther) =>
            /\ calls'[p] = CallsAtFailure(result'[p].op, result'[p].msg)
            /\ Len(calls'[p]) = Len(calls[p]) + 1
            /\ result'[p].product = Nil
            /\ result'[p].products = {}
            /\ store' = store
        /\ calls'[p] \in StoreCallSequences
        /\ pc[p] = "done" => calls'[p] \in {calls[p], <<>>}
        /\ pc'[p] \in {"update_apply", "update_put", "delete_del"} =>
            /\ calls'[p] = <<"GetItem">>
            /\ loc'[p].loaded # Nil
        /\ (pc'[p] = "done" /\ result'[p].err # ErrOther
                /\ result'[p].op \in {"UpdateProduct", "DeleteProduct"}
                /\ Len(calls'[p]) = 2)
            => loc'[p].loaded # Nil]_vars

\* An UpdateProduct on a stored record returned after its read failed: it
\* issued the GetItem and no PutItem.
C19_Witness ==
    \E p \in Procs :
        /\ Done(p, "UpdateProduct")
        /\ result[p].msg = "failed to get product for update"
        /\ loc[p].id \in DOMAIN store
        /\ calls[p] = <<"GetItem">>

(***************************************************************************)
(* C20: for every endpoint, the handler renders a failure of its service   *)
(* call by the kind of the error: ErrProductNotFound as 404,               *)
(* ErrInvalidProduct as 400 and every other error as 500; for GetProduct,  *)
(* GetProductsByCategory and DeleteProduct as for CreateProduct and        *)
(* UpdateProduct.                                                          *)
(***************************************************************************)
StatusOfKind(err) ==
    IF err = ErrProductNotFound THEN 404
    ELSE IF err = ErrInvalidProduct THEN 400
    ELSE 500

CreateSucceeds(p) ==
    /\ pc[p] = "create_put"
    /\ pc'[p] = "done"
    /\ result'[p].err = NoErr

Reactivate == [EmptyUpdate EXCEPT !.IsActive = Ptr(TRUE)]

\* No listing of the table st yields the record under k.
Unlisted(st, k) ==
    \A page \in ScanPages(st) :
        /\ UnmarshalMap(st[k]) \notin RepoGetAll(st, page)
        /\ \A c \in Categories : UnmarshalMap(st[k]) \notin RepoGetByCategory(st, c, page)

\* The listings of the table st whose Scan response is among pages yield the
\* record under k.
ListedIn(st, k, pages) ==
    \A page \in pages :
        /\ UnmarshalMap(st[k]) \in RepoGetAll(st, page)
        /\ UnmarshalMap(st[k]) \in RepoGetByCategory(st, UnmarshalMap(st[k]).Category, page)

DeleteStep(p) ==
    \/ pc[p] = "delete_del" /\ pc'[p] = "done"
    \/ pc[p] = "idle" /\ pc'[p] = "delete_del"
    \/ pc[p] = "idle" /\ pc'[p] = "done" /\ result'[p].op = "DeleteProduct"

C22_DeleteIgnoresIsActive ==
    [][/\ \A k \in DOMAIN store : DeleteProductCheck(store, k, TRUE) = NoResult
       /\ \A p \in Procs :
            DeleteStep(p) =>
                /\ DOMAIN store' \subseteq DOMAIN store
                /\ \A k \in DOMAIN store' :
                    /\ store'[k].is_active = store[k].is_active
                    /\ store'[k] = store[k]
                /\ (pc[p] = "delete_del" /\ result'[p].err = NoErr) =>
                        /\ loc[p].id \notin DOMAIN store'
                        /\ DOMAIN store' = DOMAIN store \ {loc[p].id}]_vars

\* A DeleteProduct succeeded on a record it loaded inactive, and the record
\* is gone.
C22_Witness ==
    \E p \in Procs :
        /\ Done(p, "DeleteProduct")
        /\ result[p].err = NoErr
        /\ Deref(loc[p].loaded).IsActive = FALSE
        /\ loc[p].id \notin DOMAIN store

(***************************************************************************)
(* C23: the write of an UpdateProduct whose record was deleted after the   *)
(* call loaded it puts the record back: the write succeeds as any other,   *)
(* the table then holds under the id the record the call returns, and a    *)
(* GetProduct(id) would find it; the DeleteProduct that removed the record *)
(* keeps its result.  So an UpdateProduct(id) and a DeleteProduct(id) can  *)
(* both succeed and leave the record in the table after DeleteProduct      *)
(* returned (the witness).                                                 *)
(***************************************************************************)
C23_UpdateWritesBackDeletedRecord ==
    [][\A p \in Procs :
        /\ (pc[p] = "update_put" /\ loc[p].id \notin DOMAIN store) =>
                ENABLED (UpdateProduct_Put(p) /\ result'[p].err = NoErr)
        /\ (UpdateSucceeds(p) /\ loc[p].id \notin DOMAIN store) =>
            /\ loc[p].id \in DOMAIN store'
            /\ Ptr(UnmarshalMap(store'[loc[p].id])) = result'[p].product
            /\ GetProductResult(store', loc[p].id, TRUE).err = NoErr
            /\ \A q \in Procs \ {p} : result'[q] = result[q]]_vars

\* A DeleteProduct and an UpdateProduct on one id both succeeded, and the
\* table holds the record.
C23_Witness ==
    \E p, q \in Procs :
        /\ p # q
        /\ Done(p, "UpdateProduct") /\ result[p].err = NoErr
        /\ Done(q, "DeleteProduct") /\ result[q].err = NoErr
        /\ loc[p].id = loc[q].id
        /\ loc[p].id \in DOMAIN store
        /\ GetProductResult(store, loc[p].id, TRUE).err = NoErr

(***************************************************************************)
(* C24: an operation that returns ErrInvalidProduct or ErrProductNotFound  *)
(* has issued no PutItem and no DeleteItem (at most its GetItem), it       *)
(* returns in its first step, and that step leaves the table as it was.    *)
(***************************************************************************)
Rejected(r) == r.err \in {ErrInvalidProduct, ErrProductNotFound}

C24_RejectedOperationWritesNothing ==
    [][\A p \in Procs :
        (pc[p] # "done" /\ pc'[p] = "done" /\ Rejected(result'[p])) =>
            /\ pc[p] = "idle"
            /\ calls[p] = <<>>
            /\ calls'[p] \in {<<>>, <<"GetItem">>}
            /\ store' = store
            /\ result'[p].product = Nil]_vars

\* An UpdateProduct found its record, rejected the request with
\* ErrInvalidProduct, and the table holds the record as loaded.
C24_Witness ==
    \E p \in Procs :
        /\ Done(p, "UpdateProduct")
        /\ result[p].err = ErrInvalidProduct
        /\ loc[p].loaded # Nil
        /\ loc[p].id \in DOMAIN store
        /\ Ptr(UnmarshalMap(store[loc[p].id])) = loc[p].loaded

(***************************************************************************)
(* C25: an operation on one id leaves the records of all other ids as they *)
(* are, under every interleaving.  A step changes the table at one key at  *)
(* most: the write of an UpdateProduct and the delete of a DeleteProduct   *)
(* at the id they were called with, the write of a CreateProduct at its    *)
(* new id, which the table did not hold; every other key stays, with its   *)
(* record unchanged.                                                       *)
(***************************************************************************)
\* The table stays as it is at key k.
SameAt(k) ==
    /\ k \in DOMAIN store <=> k \in DOMAIN store'
    /\ k \in DOMAIN store => store'[k] = store[k]

C25_OtherIdsUntouched ==
    [][/\ \A p \in Procs :
            /\ (pc[p] \in {"update_put", "delete_del"} /\ pc'[p] = "done") =>
                    \A k \in (DOMAIN store \cup DOMAIN store') \ {loc[p].id} : SameAt(k)
            /\ (pc[p] = "create_put" /\ pc'[p] = "done") =>
                    /\ \A k \in DOMAIN store : SameAt(k)
                    /\ DOMAIN store' \subseteq DOMAIN store \cup {Deref(loc[p].product).ID}
       /\ \A k \in DOMAIN store \cup DOMAIN store' :
            ~SameAt(k) =>
                \E p \in Procs :
                    /\ pc'[p] = "done"
                    /\ \/ pc[p] \in {"update_put", "delete_del"} /\ loc[p].id = k
                       \/ pc[p] = "create_put" /\ Deref(loc[p].product).ID = k
                                /\ k \notin DOMAIN store]_vars

\* An UpdateProduct on one id succeeded while a DeleteProduct on another id
\* is between its lookup and its delete, and the table holds both records.
C25_Witness ==
    \E p, q \in Procs :
        /\ Done(p, "UpdateProduct") /\ result[p].err = NoErr
        /\ pc[q] = "delete_del"
        /\ loc[q].id # loc[p].id
        /\ {loc[p].id, loc[q].id} \subseteq DOMAIN store
        /\ Ptr(UnmarshalMap(store[loc[q].id])) = loc[q].loaded

(***************************************************************************)
(* C26: GetProduct, GetAllProducts and GetProductsByCategory are           *)
(* read-only.  Each issues exactly one read call (GetItem for GetProduct,  *)
(* Scan for the listings), or none when its argument is empty, and no      *)
(* write or delete; the table is the same after the query as before; and   *)
(* the same query made again on the unchanged table, its store call        *)
(* succeeding, returns the same record or set of records.                  *)
(***************************************************************************)
Queries == {"GetProduct", "GetAllProducts", "GetProductsByCategory"}

\* What the query op with the argument arg may return on the table st when
\* its store call succeeds.
Repeated(op, arg, st) ==
    IF op = "GetProduct" THEN {GetProductResult(st, arg, TRUE)}
    ELSE IF op = "GetAllProducts"
        THEN {GetAllProductsResult(st, TRUE, page) : page \in ScanPages(st)}
    ELSE {GetProductsByCategoryResult(st, arg, TRUE, page) : page \in ScanPages(st)}

C26_QueriesAreReadOnlyAndRepeatable ==
    [][\A p \in Procs :
        (pc[p] = "idle" /\ pc'[p] = "done" /\ result'[p].op \in Queries) =>
            /\ calls'[p] = IF result'[p].err = ErrInvalidProduct THEN <<>>
                           ELSE IF result'[p].op = "GetProduct" THEN <<"GetItem">>
                           ELSE <<"Scan">>
            /\ store' = store
            /\ result'[p].err = NoErr =>
                    \A r \in Repeated(result'[p].op, loc'[p].id, store') :
                        r = result'[p]]_vars

(***************************************************************************)
(* C27: the binding rules of CreateProductRequest accept exactly the       *)
(* requests the service's create validation accepts: ShouldBindJSON        *)
(* returns no error on a request if and only if validateCreateRequest      *)
(* returns none.  In particular a request with stock = 0 and every other   *)
(* field valid passes the binding and the validation, and the handler's    *)
(* call goes on to store the record.                                       *)
(***************************************************************************)
C27_BindingAcceptsWhatValidationAccepts ==
    [][(pc["p1"] = "idle" /\ pc'["p1"] # "idle"
            /\ (pc'["p1"] = "create_put" \/ result'["p1"].op = "CreateProduct")) =>
        LET req == Deref(input)
        IN  /\ (ShouldBindJSON(req) = NoErr) <=> (validateCreateRequest(req) = "")
            /\ (ValidCreate(req) /\ req.Stock = 0) =>
                    /\ pc'["p1"] = "create_put"
                    /\ Deref(loc'["p1"].product).Stock = 0]_vars

====
